---- MODULE Spec2Model ----
(***************************************************************************)
(* Model of cancel-blob-tx (src/src/main.rs): a one-shot program that      *)
(* replaces a pending EIP-4844 transaction by a transaction with the same  *)
(* nonce, doubled fees and no blob hashes.  main() is a straight line of   *)
(* stages separated by `?` exits; every stage is one action.  The remote   *)
(* node, the process environment and the build profile are the inputs.     *)
(***************************************************************************)
EXTENDS Integers, Sequences, FiniteSets, TLC

(* ------------------------------------------------------------------ *)
(* Bounds of the model                                                 *)
(* ------------------------------------------------------------------ *)
MaxNonce == 2
MaxBlock == 1
MaxBlobs == 2

(* ------------------------------------------------------------------ *)
(* Option / Result                                                     *)
(* ------------------------------------------------------------------ *)
None == << >>
Some(x) == << x >>
IsSome(o) == Len(o) = 1
Unwrap(o) == o[1]
Options(S) == {None} \cup {Some(x) : x \in S}

(* ------------------------------------------------------------------ *)
(* u128 arithmetic.  A u128 is 8 little-endian limbs of 16 bits, so    *)
(* that the full 128-bit width is kept.                                 *)
(* ------------------------------------------------------------------ *)
LimbBits == 16
U128Limbs == 8
Base == 2 ^ LimbBits

RECURSIVE MulLimbs(_, _, _, _)
(* x * k with the carry out of the top limb appended: U128Limbs + 1 limbs *)
MulLimbs(x, k, i, carry) ==
    IF i > Len(x) THEN << carry >>
    ELSE << (x[i] * k + carry) % Base >>
         \o MulLimbs(x, k, i + 1, (x[i] * k + carry) \div Base)

MulOverflows(x, k) == MulLimbs(x, k, 1, 0)[U128Limbs + 1] # 0
WrappingMul(x, k) == SubSeq(MulLimbs(x, k, 1, 0), 1, U128Limbs)

RECURSIVE DivLimbs(_, _, _, _)
(* floor(x / d) for a small d, limbs taken from the most significant one *)
DivLimbs(x, d, i, rem) ==
    IF i = 0 THEN << >>
    ELSE DivLimbs(x, d, i - 1, (rem * Base + x[i]) % d)
         \o << (rem * Base + x[i]) \div d >>

DivSmall(x, d) == DivLimbs(x, d, Len(x), 0)
(* x / 1_000_000_000, as three divisions by 1000 *)
Gwei(x) == DivSmall(DivSmall(DivSmall(x, 1000), 1000), 1000)

U128(low) == low \o [i \in 1..(U128Limbs - Len(low)) |-> 0]
Zero128 == U128(<< >>)
OneGwei == U128(<< 51712, 15258 >>)
TenGwei == U128(<< 58368, 21515, 2 >>)
Pow64 == U128(<< 0, 0, 0, 0, 1 >>)
Pow127 == [i \in 1..U128Limbs |-> IF i = U128Limbs THEN Base \div 2 ELSE 0]
MaxU128 == [i \in 1..U128Limbs |-> Base - 1]
FeeValues == {Zero128, OneGwei, TenGwei, Pow64, Pow127, MaxU128}

(* ------------------------------------------------------------------ *)
(* Process environment and its parsers                                 *)
(* ------------------------------------------------------------------ *)
UrlStrings == {"not a url", "http://node:8545"}
KeyStrings == {"bad-key", "key1", "key2"}
HashStrings == {"not-a-hash", "0xh1"}

Envs == [RPC_URL : Options(UrlStrings),
         PRIVATE_KEY : Options(KeyStrings),
         TX_HASH : Options(HashStrings)]

ParseUrl(s) == IF s = "http://node:8545" THEN Some(s) ELSE None
ParseTxHash(s) == IF s = "0xh1" THEN Some("h1") ELSE None
SignerFromStr(s) == IF s \in {"key1", "key2"} THEN Some(s) ELSE None
SignerAddress(k) == IF k = "key1" THEN "addr1" ELSE "addr2"

(* ------------------------------------------------------------------ *)
(* What the node can answer                                            *)
(* ------------------------------------------------------------------ *)
TxTypes == {"legacy", "eip1559", "eip4844"}
BlobHashes(n) == [i \in 1..n |-> i]

Eip4844Txs == [type : {"eip4844"},
               nonce : 0..MaxNonce,
               to : {"addr1", "addr3"},
               value : {0, 1},
               gas_limit : {21000, 100000},
               max_fee_per_gas : FeeValues,
               max_priority_fee_per_gas : FeeValues,
               max_fee_per_blob_gas : {OneGwei},
               blob_versioned_hashes : {BlobHashes(n) : n \in 1..MaxBlobs}]

OtherTxs == [type : TxTypes \ {"eip4844"},
             nonce : 0..MaxNonce,
             to : {"addr3"},
             value : {1},
             gas_limit : {21000},
             max_fee_per_gas : {TenGwei},
             max_priority_fee_per_gas : {OneGwei},
             max_fee_per_blob_gas : {Zero128},
             blob_versioned_hashes : {<< >>}]

Txs == Eip4844Txs \cup OtherTxs
Receipts == [block_number : Options(0..MaxBlock)]

(* ------------------------------------------------------------------ *)
(* State                                                               *)
(* ------------------------------------------------------------------ *)
VARIABLES
    pc,               \* stage of main()
    env,              \* process environment (input)
    overflow_checks,  \* build profile: TRUE panics on overflow, FALSE wraps
    tx_hash,          \* Option: parsed TX_HASH
    from,             \* Option: signer.address()
    calls,            \* provider operations issued so far, with their outcome
    orig_tx,          \* Option: transaction returned by the node
    receipt,          \* Option: receipt returned by the node
    new_max_fee,      \* Option: doubled max fee
    new_priority_fee, \* Option: doubled priority fee
    sidecar,          \* Option: blob sidecar built from the placeholder payload
    sent,             \* requests handed to send_transaction
    out,              \* lines printed
    err,              \* error chain returned by main, outermost context first
    exit_code         \* Option: process exit status

vars == << pc, env, overflow_checks, tx_hash, from, calls, orig_tx, receipt,
           new_max_fee, new_priority_fee, sidecar, sent, out, err, exit_code >>

Terminal == {"Submitted", "AlreadyFinal", "Failed", "Panicked"}

Init ==
    /\ pc = "Start"
    /\ env \in Envs
    /\ overflow_checks \in BOOLEAN
    /\ tx_hash = None
    /\ from = None
    /\ calls = << >>
    /\ orig_tx = None
    /\ receipt = None
    /\ new_max_fee = None
    /\ new_priority_fee = None
    /\ sidecar = None
    /\ sent = << >>
    /\ out = << >>
    /\ err = << >>
    /\ exit_code = None

(* ------------------------------------------------------------------ *)
(* How main() ends                                                     *)
(* ------------------------------------------------------------------ *)
(* variant: an error returned by main still exits with status 0 *)
ExitStatus_ErrIsZero(result) ==
    IF result = "panic" THEN 101 ELSE 0

ExitStatus(result) ==
    IF result = "Ok" THEN 0
    ELSE IF result = "Err" THEN 1
    ELSE 101

(* variant: a failed step is attempted again instead of ending the run *)
Try_Retry(ok, next) == IF ok THEN next ELSE pc

(* the `?` operator: continue on Ok, leave main on Err *)
Try(ok, next) == IF ok THEN next ELSE "Failed"

Call(op, ok) == [op |-> op, ok |-> ok]

(* ------------------------------------------------------------------ *)
(* Lines 18-35: configuration, signer, provider                        *)
(* ------------------------------------------------------------------ *)
(* variant: the PRIVATE_KEY lookup carries the RPC_URL message *)
ConfigError_WrongName(e) ==
    IF e.RPC_URL = None
        THEN << "RPC_URL environment variable not set", "VarError" >>
    ELSE IF e.PRIVATE_KEY = None
        THEN << "RPC_URL environment variable not set", "VarError" >>
    ELSE IF e.TX_HASH = None
        THEN << "TX_HASH environment variable not set", "VarError" >>
    ELSE IF ParseTxHash(Unwrap(e.TX_HASH)) = None
        THEN << "Invalid transaction hash format", "FromHexError" >>
    ELSE IF SignerFromStr(Unwrap(e.PRIVATE_KEY)) = None
        THEN << "Invalid private key format", "LocalSignerError" >>
    ELSE IF ParseUrl(Unwrap(e.RPC_URL)) = None
        THEN << "url::ParseError" >>
    ELSE << >>

ConfigError(e) ==
    IF e.RPC_URL = None
        THEN << "RPC_URL environment variable not set", "VarError" >>
    ELSE IF e.PRIVATE_KEY = None
        THEN << "PRIVATE_KEY environment variable not set", "VarError" >>
    ELSE IF e.TX_HASH = None
        THEN << "TX_HASH environment variable not set", "VarError" >>
    ELSE IF ParseTxHash(Unwrap(e.TX_HASH)) = None
        THEN << "Invalid transaction hash format", "FromHexError" >>
    ELSE IF SignerFromStr(Unwrap(e.PRIVATE_KEY)) = None
        THEN << "Invalid private key format", "LocalSignerError" >>
    ELSE IF ParseUrl(Unwrap(e.RPC_URL)) = None
        THEN << "url::ParseError" >>
    ELSE << >>

LoadConfig ==
    /\ pc = "Start"
    /\ LET e == ConfigError(env) IN
       /\ pc' = Try(e = << >>, "ConfigLoaded")
       /\ err' = e
       /\ exit_code' = IF e = << >> THEN None ELSE Some(ExitStatus("Err"))
       /\ tx_hash' = IF e = << >> THEN ParseTxHash(Unwrap(env.TX_HASH)) ELSE None
       /\ from' = IF e = << >>
                  THEN Some(SignerAddress(Unwrap(SignerFromStr(Unwrap(env.PRIVATE_KEY)))))
                  ELSE None
    /\ UNCHANGED << env, overflow_checks, calls, orig_tx, receipt,
                    new_max_fee, new_priority_fee, sidecar, sent, out >>

(* ------------------------------------------------------------------ *)
(* Lines 37-42: connectivity check                                     *)
(* ------------------------------------------------------------------ *)
GetBlockNumber ==
    /\ pc = "ConfigLoaded"
    /\ \E resp \in Options(0..MaxBlock) :      \* None: the call failed
        /\ calls' = Append(calls, Call("get_block_number", IsSome(resp)))
        /\ pc' = Try(IsSome(resp), "ConnectedToNode")
        /\ IF IsSome(resp)
           THEN /\ out' = Append(out, [line |-> "Connected to RPC. Current block number",
                                       args |-> << Unwrap(resp) >>])
                /\ UNCHANGED << err, exit_code >>
           ELSE /\ err' = << "Failed to connect to RPC endpoint", "TransportError" >>
                /\ exit_code' = Some(ExitStatus("Err"))
                /\ UNCHANGED out
    /\ UNCHANGED << env, overflow_checks, tx_hash, from, orig_tx, receipt,
                    new_max_fee, new_priority_fee, sidecar, sent >>

(* ------------------------------------------------------------------ *)
(* Lines 44-51: fetch the original transaction                         *)
(* ------------------------------------------------------------------ *)
GetTransactionByHash ==
    /\ pc = "ConnectedToNode"
    /\ \E ok \in BOOLEAN, found \in Options(Txs) :
        /\ ~ok => found = None
        /\ calls' = Append(calls, Call("get_transaction_by_hash", ok))
        /\ pc' = Try(ok /\ IsSome(found), "TxFetched")
        /\ orig_tx' = found
        /\ IF ~ok
           THEN /\ err' = << "Failed to fetch transaction", "TransportError" >>
                /\ exit_code' = Some(ExitStatus("Err"))
           ELSE IF found = None
           THEN /\ err' = << "Transaction not found" >>
                /\ exit_code' = Some(ExitStatus("Err"))
           ELSE UNCHANGED << err, exit_code >>
    /\ UNCHANGED << env, overflow_checks, tx_hash, from, receipt,
                    new_max_fee, new_priority_fee, sidecar, sent, out >>

(* ------------------------------------------------------------------ *)
(* Lines 53-62: the transaction must be an EIP-4844 transaction        *)
(* ------------------------------------------------------------------ *)
(* variant: the kind of the transaction is not looked at *)
AsEip4844_AnyKind(t) == Some(t)

AsEip4844(t) == IF t.type = "eip4844" THEN Some(t) ELSE None

InspectTx ==
    /\ pc = "TxFetched"
    /\ LET tx == AsEip4844(Unwrap(orig_tx)) IN
       /\ pc' = Try(IsSome(tx), "Inspected")
       /\ IF IsSome(tx)
          THEN /\ out' = Append(out, [line |-> "Found EIP-4844 transaction",
                                      args |-> << Some(Unwrap(tx).to), Unwrap(tx).nonce >>])
               /\ UNCHANGED << err, exit_code >>
          ELSE /\ err' = << "Transaction is not an EIP-4844 blob transaction" >>
               /\ exit_code' = Some(ExitStatus("Err"))
               /\ UNCHANGED out
    /\ UNCHANGED << env, overflow_checks, tx_hash, from, calls, orig_tx, receipt,
                    new_max_fee, new_priority_fee, sidecar, sent >>

(* ------------------------------------------------------------------ *)
(* Lines 64-75: is the transaction still pending?                      *)
(* ------------------------------------------------------------------ *)
UnwrapOrDefault(o) == IF IsSome(o) THEN Unwrap(o) ELSE 0

(* variant: a receipt does not end the run *)
AfterReceipt_NoReturn(r) == "PendingConfirmed"

(* `if let Some(receipt) = ... { ...; return Ok(()) }` *)
AfterReceipt(r) == IF IsSome(r) THEN "AlreadyFinal" ELSE "PendingConfirmed"

GetTransactionReceipt ==
    /\ pc = "Inspected"
    /\ \E ok \in BOOLEAN, r \in Options(Receipts) :
        /\ ~ok => r = None
        /\ calls' = Append(calls, Call("get_transaction_receipt", ok))
        /\ receipt' = r
        /\ pc' = Try(ok, AfterReceipt(r))
        /\ IF ~ok
           THEN /\ err' = << "Failed to check transaction receipt", "TransportError" >>
                /\ exit_code' = Some(ExitStatus("Err"))
                /\ UNCHANGED out
           ELSE IF pc' = "AlreadyFinal"
           THEN /\ out' = Append(out, [line |-> "Transaction already confirmed in block",
                                       args |-> << UnwrapOrDefault(Unwrap(r).block_number) >>])
                /\ exit_code' = Some(ExitStatus("Ok"))
                /\ UNCHANGED err
           ELSE UNCHANGED << out, err, exit_code >>
    /\ UNCHANGED << env, overflow_checks, tx_hash, from, orig_tx,
                    new_max_fee, new_priority_fee, sidecar, sent >>

(* ------------------------------------------------------------------ *)
(* Lines 77-102: print the fees and double them                        *)
(* ------------------------------------------------------------------ *)
(* u128 `*`: panics on overflow when the build checks overflow, wraps  *)
(* otherwise.  None is the panic.                                       *)
MulU128(x, k, checks) ==
    IF MulOverflows(x, k) /\ checks THEN None ELSE Some(WrappingMul(x, k))

OriginalFeeLines(tx) ==
    << [line |-> "Original transaction fees:", args |-> << >>],
       [line |-> "Max fee per gas (gwei)", args |-> << Gwei(tx.max_fee_per_gas) >>],
       [line |-> "Max priority fee per gas (gwei)",
        args |-> << Gwei(tx.max_priority_fee_per_gas) >>],
       [line |-> "Gas limit", args |-> << tx.gas_limit >>],
       [line |-> "Max fee per blob gas (gwei)",
        args |-> << Gwei(tx.max_fee_per_blob_gas) >>] >>

NewFeeLines(fee, prio) ==
    << [line |-> "New transaction fees:", args |-> << >>],
       [line |-> "Max fee per gas (gwei)", args |-> << Gwei(fee) >>],
       [line |-> "Max priority fee per gas (gwei)", args |-> << Gwei(prio) >>] >>

ComputeFees ==
    /\ pc = "PendingConfirmed"
    /\ LET tx == Unwrap(AsEip4844(Unwrap(orig_tx)))
           fee == MulU128(tx.max_fee_per_gas, 2, overflow_checks)
           prio == MulU128(tx.max_priority_fee_per_gas, 2, overflow_checks)
       IN IF IsSome(fee) /\ IsSome(prio)
          THEN /\ new_max_fee' = fee
               /\ new_priority_fee' = prio
               /\ out' = out \o OriginalFeeLines(tx)
                             \o NewFeeLines(Unwrap(fee), Unwrap(prio))
               /\ pc' = "FeesComputed"
               /\ UNCHANGED exit_code
          ELSE /\ new_max_fee' = fee
               /\ new_priority_fee' = IF IsSome(fee) THEN prio ELSE None
               /\ out' = out \o OriginalFeeLines(tx)
               /\ pc' = "Panicked"
               /\ exit_code' = Some(ExitStatus("panic"))
    /\ UNCHANGED << env, overflow_checks, tx_hash, from, calls, orig_tx, receipt,
                    sidecar, sent, err >>

(* ------------------------------------------------------------------ *)
(* Lines 104-106: blob sidecar from the fixed payload                  *)
(* ------------------------------------------------------------------ *)
BuildSidecar ==
    /\ pc = "FeesComputed"
    /\ \E built \in Options({"Hello, world!"}) :   \* None: build() failed
        /\ sidecar' = built
        /\ pc' = Try(IsSome(built), "SidecarBuilt")
        /\ IF IsSome(built)
           THEN UNCHANGED << err, exit_code >>
           ELSE /\ err' = << "Failed to build blob sidecar", "BuilderError" >>
                /\ exit_code' = Some(ExitStatus("Err"))
    /\ UNCHANGED << env, overflow_checks, tx_hash, from, calls, orig_tx, receipt,
                    new_max_fee, new_priority_fee, sent, out >>

(* ------------------------------------------------------------------ *)
(* Lines 108-129: build the replacement and send it                    *)
(* ------------------------------------------------------------------ *)
(* variant: the nonce is left for the provider to fill *)
ReplacementTx_NoNonce(self, tx, fee, prio, sc) ==
    [to |-> Some(self),
     value |-> Some(0),
     gas |-> Some(21000),
     max_fee_per_gas |-> Some(fee),
     max_priority_fee_per_gas |-> Some(prio),
     nonce |-> None,
     blob_versioned_hashes |-> Some(<< >>),
     sidecar |-> Some(sc),
     max_fee_per_blob_gas |-> None,
     input |-> None]

(* variant: gas limit and blob hashes are carried over from the original *)
ReplacementTx_CarryOver(self, tx, fee, prio, sc) ==
    [to |-> Some(self),
     value |-> Some(0),
     gas |-> Some(tx.gas_limit),
     max_fee_per_gas |-> Some(fee),
     max_priority_fee_per_gas |-> Some(prio),
     nonce |-> Some(tx.nonce),
     blob_versioned_hashes |-> Some(tx.blob_versioned_hashes),
     sidecar |-> Some(sc),
     max_fee_per_blob_gas |-> None,
     input |-> None]

ReplacementTx(self, tx, fee, prio, sc) ==
    [to |-> Some(self),
     value |-> Some(0),
     gas |-> Some(21000),
     max_fee_per_gas |-> Some(fee),
     max_priority_fee_per_gas |-> Some(prio),
     nonce |-> Some(tx.nonce),
     blob_versioned_hashes |-> Some(<< >>),
     sidecar |-> Some(sc),
     max_fee_per_blob_gas |-> None,
     input |-> None]

SendTransaction ==
    /\ pc = "SidecarBuilt"
    /\ LET tx == Unwrap(AsEip4844(Unwrap(orig_tx)))
           replacement_tx == ReplacementTx(Unwrap(from), tx, Unwrap(new_max_fee),
                                           Unwrap(new_priority_fee), Unwrap(sidecar))
       IN \E pending_tx \in Options({"h2"}) :     \* None: the send failed
           /\ sent' = Append(sent, replacement_tx)
           /\ calls' = Append(calls, Call("send_transaction", IsSome(pending_tx)))
           /\ pc' = Try(IsSome(pending_tx), "Submitted")
           /\ IF IsSome(pending_tx)
              THEN /\ out' = out \o << [line |-> "Sending replacement transaction...",
                                        args |-> << >>],
                                       [line |-> "Replacement transaction sent",
                                        args |-> << Unwrap(pending_tx) >>] >>
                   /\ exit_code' = Some(ExitStatus("Ok"))
                   /\ UNCHANGED err
              ELSE /\ out' = Append(out, [line |-> "Sending replacement transaction...",
                                          args |-> << >>])
                   /\ err' = << "Failed to send replacement transaction", "TransportError" >>
                   /\ exit_code' = Some(ExitStatus("Err"))
    /\ UNCHANGED << env, overflow_checks, tx_hash, from, orig_tx, receipt,
                    new_max_fee, new_priority_fee, sidecar >>

(* ------------------------------------------------------------------ *)
(* The program                                                         *)
(* ------------------------------------------------------------------ *)
Next ==
    \/ LoadConfig
    \/ GetBlockNumber
    \/ GetTransactionByHash
    \/ InspectTx
    \/ GetTransactionReceipt
    \/ ComputeFees
    \/ BuildSidecar
    \/ SendTransaction

Spec == Init /\ [][Next]_vars

TypeOK ==
    /\ pc \in {"Start", "ConfigLoaded", "ConnectedToNode", "TxFetched", "Inspected",
               "PendingConfirmed", "FeesComputed", "SidecarBuilt"} \cup Terminal
    /\ Len(calls) <= 4
    /\ Len(sent) <= 1

(* ------------------------------------------------------------------ *)
(* Vocabulary of the properties                                        *)
(* ------------------------------------------------------------------ *)
Ops == [i \in 1..Len(calls) |-> calls[i].op]
OpOrder == << "get_block_number", "get_transaction_by_hash",
              "get_transaction_receipt", "send_transaction" >>
Issued(op) == \E i \in 1..Len(calls) : calls[i].op = op
Succeeded(op) == \E i \in 1..Len(calls) : calls[i].op = op /\ calls[i].ok
IsBlob == IsSome(orig_tx) /\ Unwrap(orig_tx).type = "eip4844"
ReceiptAbsent == Succeeded("get_transaction_receipt") /\ receipt = None

RECURSIVE AddLimbs(_, _, _, _)
(* x + y, exact: one limb more than the operands *)
AddLimbs(x, y, i, carry) ==
    IF i > Len(x) THEN << carry >>
    ELSE << (x[i] + y[i] + carry) % Base >>
         \o AddLimbs(x, y, i + 1, (x[i] + y[i] + carry) \div Base)

Twice(x) == AddLimbs(x, x, 1, 0)
Widen(x) == x \o << 0 >>

NotSetMessage ==
    [RPC_URL |-> "RPC_URL environment variable not set",
     PRIVATE_KEY |-> "PRIVATE_KEY environment variable not set",
     TX_HASH |-> "TX_HASH environment variable not set"]
ParseMessage ==
    [RPC_URL |-> "Invalid RPC URL",
     PRIVATE_KEY |-> "Invalid private key format",
     TX_HASH |-> "Invalid transaction hash format"]
EnvNames == {"RPC_URL", "PRIVATE_KEY", "TX_HASH"}
Absent == {v \in EnvNames : env[v] = None}
Malformed ==
    {v \in EnvNames \ Absent :
        \/ v = "RPC_URL" /\ ParseUrl(Unwrap(env[v])) = None
        \/ v = "PRIVATE_KEY" /\ SignerFromStr(Unwrap(env[v])) = None
        \/ v = "TX_HASH" /\ ParseTxHash(Unwrap(env[v])) = None}

(* ------------------------------------------------------------------ *)
(* Properties                                                          *)
(* ------------------------------------------------------------------ *)

(* C1: whenever the receipt lookup returned a receipt, the run is in the   *)
(* terminal state AlreadyFinal with exit status 0, the last line printed   *)
(* carries the receipt's block number, and send_transaction was not issued *)
C1_AlreadyFinalNoSubmit ==
    IsSome(receipt) =>
        /\ pc = "AlreadyFinal"
        /\ exit_code = Some(0)
        /\ err = << >>
        /\ sent = << >>
        /\ ~Issued("send_transaction")
        /\ Len(out) > 0
        /\ out[Len(out)].line = "Transaction already confirmed in block"
        /\ IsSome(Unwrap(receipt).block_number)
              => out[Len(out)].args = << Unwrap(Unwrap(receipt).block_number) >>

C1_Witness ==
    /\ IsSome(receipt)
    /\ Unwrap(receipt).block_number = Some(1)
    /\ pc = "AlreadyFinal"
    /\ out[Len(out)].args = << 1 >>

(* C2 (as claimed): once a run with a fetched blob transaction and an      *)
(* absent receipt has ended, it has issued send_transaction exactly once   *)
C2_AlwaysSubmitsOnce ==
    (pc \in Terminal /\ IsBlob /\ ReceiptAbsent) =>
        (Len(sent) = 1 /\ Len(SelectSeq(calls, LAMBDA c : c.op = "send_transaction")) = 1)

(* C3: every request handed to send_transaction has the nonce of the       *)
(* fetched original transaction                                            *)
C3_SameNonce ==
    \A i \in 1..Len(sent) : sent[i].nonce = Some(Unwrap(orig_tx).nonce)

C3_Witness ==
    /\ Len(sent) = 1
    /\ Unwrap(orig_tx).nonce = 0
    /\ sent[1].nonce = Some(0)

(* C4 (as claimed): the doubling never aborts, and the computed and the    *)
(* submitted fees are exactly twice the original ones                      *)
C4_ExactDouble ==
    /\ pc # "Panicked"
    /\ IsSome(new_max_fee) =>
          Widen(Unwrap(new_max_fee)) = Twice(Unwrap(orig_tx).max_fee_per_gas)
    /\ IsSome(new_priority_fee) =>
          Widen(Unwrap(new_priority_fee)) = Twice(Unwrap(orig_tx).max_priority_fee_per_gas)
    /\ \A i \in 1..Len(sent) :
          /\ Widen(Unwrap(sent[i].max_fee_per_gas))
                = Twice(Unwrap(orig_tx).max_fee_per_gas)
          /\ Widen(Unwrap(sent[i].max_priority_fee_per_gas))
                = Twice(Unwrap(orig_tx).max_priority_fee_per_gas)

(* C5: every request handed to send_transaction goes to the signer's own   *)
(* address with value 0, gas 21000, an empty blob hash list and the fixed  *)
(* sidecar, whatever the original's recipient, value, gas limit and blobs  *)
C5_FixedFields ==
    \A i \in 1..Len(sent) :
        /\ sent[i].to = Some(SignerAddress(Unwrap(env.PRIVATE_KEY)))
        /\ sent[i].to = from
        /\ sent[i].value = Some(0)
        /\ sent[i].gas = Some(21000)
        /\ sent[i].blob_versioned_hashes = Some(<< >>)
        /\ sent[i].sidecar = Some("Hello, world!")
        /\ sent[i].max_fee_per_blob_gas = None
        /\ sent[i].input = None

C5_Witness ==
    /\ Len(sent) = 1
    /\ Some(Unwrap(orig_tx).to) # from
    /\ Unwrap(orig_tx).value = 1
    /\ Unwrap(orig_tx).gas_limit = 100000
    /\ Len(Unwrap(orig_tx).blob_versioned_hashes) = 2
    /\ sent[1].gas = Some(21000)

(* C6: a fetched transaction that is not an EIP-4844 transaction leaves    *)
(* the run failed with the wrong-kind cause as soon as it is inspected,    *)
(* and the transaction fetch stays the last operation issued               *)
C6_WrongKindFails ==
    (IsSome(orig_tx) /\ Unwrap(orig_tx).type # "eip4844") =>
        /\ pc \in {"TxFetched", "Failed"}
        /\ Ops = SubSeq(OpOrder, 1, 2)
        /\ sent = << >>
        /\ pc = "Failed" =>
              /\ err = << "Transaction is not an EIP-4844 blob transaction" >>
              /\ exit_code = Some(1)

C6_Witness ==
    /\ IsSome(orig_tx)
    /\ Unwrap(orig_tx).type = "legacy"
    /\ pc = "Failed"
    /\ Len(calls) = 2

(* C7: with an environment variable absent the run has issued no network   *)
(* operation, and once the configuration is read it is failed with a cause *)
(* that names a variable that is absent                                    *)
C7_MissingVariableNamed ==
    (Absent # {}) =>
        /\ pc \in {"Start", "Failed"}
        /\ calls = << >>
        /\ sent = << >>
        /\ pc = "Failed" =>
              /\ exit_code = Some(1)
              /\ \E v \in Absent : err[1] = NotSetMessage[v]

C7_Witness ==
    /\ pc = "Failed"
    /\ Absent = {"PRIVATE_KEY", "TX_HASH"}
    /\ err[1] = "PRIVATE_KEY environment variable not set"

(* C8 (as claimed): with all variables present and one of them malformed,  *)
(* the run fails before any network operation with a context message       *)
(* attached to the parse error, the message of a malformed variable        *)
C8_ParseFailureDescribed ==
    (Absent = {} /\ Malformed # {} /\ pc # "Start") =>
        /\ pc = "Failed"
        /\ calls = << >>
        /\ Len(err) = 2
        /\ \E v \in Malformed : err[1] = ParseMessage[v]

C10_OrderedOnce ==
    /\ Len(calls) <= Len(OpOrder)
    /\ Ops = SubSeq(OpOrder, 1, Len(calls))
    /\ \A i \in 1..Len(calls) : ~calls[i].ok => (i = Len(calls) /\ pc = "Failed")

C10_Witness ==
    /\ Len(calls) = 4
    /\ ~calls[4].ok
    /\ pc = "Failed"

====
